---- MODULE Spec2Model ----
(***************************************************************************)
(* Model of pims' format dispatch and lazy sequence access layer           *)
(* (src/pims/api.py): the PimsFormat entries registered with imageio at    *)
(* import, open(), and the ImageIOReader facade over an imageio Reader     *)
(* that wraps a pims reader; and of the Viewer of src/pims/viewer.py with   *)
(* its pipeline plugins.                                                   *)
(*                                                                         *)
(* File names are sequences of one-character strings so that lower() and   *)
(* endswith() are computed, not assumed.                                   *)
(***************************************************************************)
EXTENDS Integers, Sequences, FiniteSets, TLC

VARIABLES
    avail,          \* optional libraries that import successfully
    names,          \* what the optional public names of pims.api are bound to
    formats,        \* imageio's registry: format names in list order
    request,        \* the last Request handed to the registry, or NoRequest
    resolved,       \* the format the registry chose for it, or "none"
    lookups,        \* registry lookups made so far
    nmatched,       \* len(glob.glob(sequence)) in the last open(), or -1
    fexists,        \* the path given to the last open() names a file or directory
    dirImages,      \* images in it when that path is a directory, else -1
    kind,           \* class of the object open() constructed, or "none"
    phase,          \* "none" | "constructed" | "failed" (constructor raised)
    reader,         \* self.reader: the imageio Reader and the pims reader in it
    closeCalls,     \* calls of ImageIOReader.close()
    _len,           \* ImageIOReader._len
    _shape,         \* ImageIOReader._shape
    _dtype,         \* ImageIOReader._dtype
    lenAtOpen,      \* history: the backend's length when __init__ read it
    iteration,      \* the iterator last made by iter(facade), or NoIteration
    out,            \* outcome of the last operation
    viewer,         \* the attributes of the Viewer object
    vphase,         \* "none" | "constructed" | "failed" (Viewer() raised)
    closedReaders,  \* ids of the readers whose close() the viewer has called
    plugs,          \* the PipelinePlugin objects made so far, by identity
    chain,          \* the list the last show() returned, or NoChain
    vout            \* outcome of the last viewer operation

vars == <<avail, names, formats, request, resolved, lookups, nmatched, fexists, dirImages, kind, phase, reader, closeCalls,
          _len, _shape, _dtype, lenAtOpen, iteration, out, viewer, vphase, closedReaders, plugs, chain,
          vout>>

registryVars == <<avail, names, formats>>
lookupVars == <<request, resolved, lookups>>
inputVars == <<fexists, dirImages>>
viewerVars == <<viewer, vphase, closedReaders, plugs, chain, vout>>
facadeVars == <<nmatched, fexists, dirImages, kind, phase, reader, closeCalls, _len, _shape, _dtype,
                lenAtOpen, iteration>>

(***************************************************************************)
(* Bounds of the model.                                                    *)
(***************************************************************************)
MaxFrames == 2
MaxMatches == 3
MaxCloses == 2
MaxLookups == 2
MaxPlugins == 2

(***************************************************************************)
(* Strings as character sequences.                                         *)
(***************************************************************************)
UpperChars == <<"A","B","C","D","E","F","G","H","I","J","K","L","M",
                "N","O","P","Q","R","S","T","U","V","W","X","Y","Z">>
LowerChars == <<"a","b","c","d","e","f","g","h","i","j","k","l","m",
                "n","o","p","q","r","s","t","u","v","w","x","y","z">>

\* the lower-case letter of each upper-case letter
LowerTable ==
    [c \in {UpperChars[k] : k \in 1..26} |->
        LowerChars[CHOOSE k \in 1..26 : UpperChars[k] = c]]

LowerChar(c) == IF c \in DOMAIN LowerTable THEN LowerTable[c] ELSE c

\* str.lower()
lower(s) == [k \in 1..Len(s) |-> LowerChar(s[k])]

\* str.endswith(suffix)
EndsWith(s, suffix) ==
    /\ Len(suffix) <= Len(s)
    /\ SubSeq(s, Len(s) - Len(suffix) + 1, Len(s)) = suffix

\* str.endswith(tuple of suffixes)
endswith(s, suffixes) == \E x \in suffixes : EndsWith(s, x)

(***************************************************************************)
(* The PimsFormat entries of api.py.                                       *)
(***************************************************************************)
OptionalLibs == {"PyAV", "tifffile", "libtiff", "PIL", "JPype", "pims_nd2"}

FormatNames == {"Norpix", "Cine", "PyAV", "Tifffile", "Libtiff", "PIL",
                "Bioformats", "ND2_Reader"}

\* modes= of each PimsFormat(...) call
modes(f) ==
    CASE f = "Norpix"     -> {"i", "v"}
      [] f = "Cine"       -> {"i", "v"}
      [] f = "PyAV"       -> {"i", "I"}
      [] f = "Tifffile"   -> {"i", "v"}
      [] f = "Libtiff"    -> {"i", "v"}
      [] f = "PIL"        -> {"i", "v"}
      [] f = "Bioformats" -> {"i", "I", "v", "V"}
      [] f = "ND2_Reader" -> {"i", "I", "v", "V"}

\* class_exts() of each reader class (a representative subset of each)
class_exts(f) ==
    CASE f = "Norpix"     -> {<<"s","e","q">>}
      [] f = "Cine"       -> {<<"c","i","n","e">>}
      [] f = "PyAV"       -> {<<"a","v","i">>}
      [] f = "Tifffile"   -> {<<"t","i","f">>, <<"s","t","k">>}
      [] f = "Libtiff"    -> {<<"t","i","f">>, <<"s","t","k">>}
      [] f = "PIL"        -> {<<"t","i","f">>, <<"s","t","k">>}
      [] f = "Bioformats" -> {<<"t","i","f">>, <<"s","e","q">>, <<"l","i","f">>}
      [] f = "ND2_Reader" -> {<<"n","d","2">>}

\* Format.extensions: imageio stores each declared extension lower-cased
\* with one leading dot
ExtensionTable ==
    [f \in FormatNames |-> { <<".">> \o lower(e) : e \in class_exts(f) }]

\* Format.extensions
extensions(f) == ExtensionTable[f]

\* _can_read without the lower(): the extension is compared as written
_can_read_case_sensitive(f, req) ==
    IF req.mode \in (modes(f) \cup {"?"})
    THEN IF endswith(req.filename, extensions(f)) THEN TRUE ELSE FALSE
    ELSE FALSE

\* _can_read looking at the mode only
_can_read_any_ext(f, req) ==
    IF req.mode \in (modes(f) \cup {"?"}) THEN TRUE ELSE FALSE

\* PimsFormat._can_read; None is modelled as FALSE
_can_read(f, req) ==
    IF req.mode \in (modes(f) \cup {"?"})
    THEN IF endswith(lower(req.filename), extensions(f)) THEN TRUE ELSE FALSE
    ELSE FALSE

\* PimsFormat._can_write
_can_write(f, req) == FALSE

\* formats.add_format: appends to the registry list
add_format(reg, f) == Append(reg, f)

\* The library each optional entry needs, and the guard api.py tests
Requires(f) ==
    CASE f = "PyAV"       -> "PyAV"
      [] f = "Tifffile"   -> "tifffile"
      [] f = "Libtiff"    -> "libtiff"
      [] f = "PIL"        -> "PIL"
      [] f = "Bioformats" -> "JPype"
      [] f = "ND2_Reader" -> "pims_nd2"
      [] OTHER            -> "none"

\* a registration block that registers whatever the guard says
Register_always(reg, f, libs) == add_format(reg, f)

\* one guarded registration block of api.py
Register(reg, f, libs) ==
    IF Requires(f) = "none" \/ Requires(f) \in libs
    THEN add_format(reg, f)
    ELSE reg

\* the module body with the Libtiff block ahead of the Tifffile block
Registrations_libtiff_first(libs) ==
    LET r1 == Register(<<>>, "Norpix", libs)
        r2 == Register(r1, "Cine", libs)
        r3 == Register(r2, "PyAV", libs)
        r4 == Register(r3, "Libtiff", libs)
        r5 == Register(r4, "Tifffile", libs)
        r6 == Register(r5, "PIL", libs)
        r7 == Register(r6, "Bioformats", libs)
    IN  Register(r7, "ND2_Reader", libs)

\* The module body of api.py, lines 66-168, in statement order
Registrations(libs) ==
    LET r1 == Register(<<>>, "Norpix", libs)
        r2 == Register(r1, "Cine", libs)
        r3 == Register(r2, "PyAV", libs)
        r4 == Register(r3, "Tifffile", libs)
        r5 == Register(r4, "Libtiff", libs)
        r6 == Register(r5, "PIL", libs)
        r7 == Register(r6, "Bioformats", libs)
    IN  Register(r7, "ND2_Reader", libs)

\* pims_reader= of each PimsFormat(...) call: the reader class of the entry
pims_reader(f) ==
    CASE f = "Norpix"     -> "NorpixSeq"
      [] f = "Cine"       -> "Cine"
      [] f = "PyAV"       -> "PyAVVideoReader"
      [] f = "Tifffile"   -> "TiffStack_tifffile"
      [] f = "Libtiff"    -> "TiffStack_libtiff"
      [] f = "PIL"        -> "TiffStack_pil"
      [] f = "Bioformats" -> "BioformatsReader"
      [] f = "ND2_Reader" -> "ND2_Reader"

\* the module-level names api.py binds in its guarded blocks
PublicNames == {"Video", "TiffStack_tifffile", "TiffStack_libtiff",
                "TiffStack_pil", "TiffStack", "Bioformats", "ND2_Reader"}

\* a name bound to the reader class itself
Class(f) == [stub |-> FALSE, cls |-> pims_reader(f), requirement |-> "none"]

\* not_available(requirement): a callable that only raises
not_available(requirement) ==
    [stub |-> TRUE, cls |-> "none", requirement |-> requirement]

\* raiser(*args, **kwargs) of not_available
raiser(requirement) ==
    [status |-> "BackendUnavailable", requires |-> requirement]

\* the name bound in one guarded block: the class, or the placeholder
Bind(f, libs, requirement) ==
    IF Requires(f) \in libs THEN Class(f) ELSE not_available(requirement)

\* the bindings of the public names after the module body has run
Bindings(libs) ==
    LET tifffile == Bind("Tifffile", libs, "tifffile")
        libtiff  == Bind("Libtiff", libs, "libtiff")
        pil      == Bind("PIL", libs, "PIL or Pillow")
    IN  [n \in PublicNames |->
           CASE n = "Video" -> Bind("PyAV", libs, "PyAV and/or PIL/Pillow")
             [] n = "TiffStack_tifffile" -> tifffile
             [] n = "TiffStack_libtiff"  -> libtiff
             [] n = "TiffStack_pil"      -> pil
             [] n = "TiffStack" ->
                  IF "tifffile" \in libs THEN tifffile
                  ELSE IF "libtiff" \in libs THEN libtiff
                  ELSE IF "PIL" \in libs THEN pil
                  ELSE not_available("tifffile, libtiff, or PIL/Pillow")
             [] n = "Bioformats" -> Bind("Bioformats", libs, "JPype")
             [] n = "ND2_Reader" -> Bind("ND2_Reader", libs, "pims_nd2")]

\* imageio's FormatManager.search_read_format: the first entry, in list
\* order, whose can_read accepts the request
RECURSIVE FirstReader(_, _, _)
FirstReader(reg, k, req) ==
    IF k > Len(reg) THEN "none"
    ELSE IF _can_read(reg[k], req) THEN reg[k]
    ELSE FirstReader(reg, k + 1, req)

search_read_format(reg, req) == FirstReader(reg, 1, req)

(***************************************************************************)
(* Frames and the readers under the facade.                                *)
(***************************************************************************)
FrameKinds == {"gray8", "rgb16"}

\* ndarray.shape of a decoded frame
Shape(k) == IF k = "gray8" THEN <<2, 2>> ELSE <<2, 2, 3>>

\* ndarray.dtype of a decoded frame
Dtype(k) == IF k = "gray8" THEN "uint8" ELSE "uint16"

NoData == [id |-> -1, kind |-> "none"]
NoFrame == [payload |-> NoData, frame_no |-> -1]

\* self.reader before any reader was built
NoReader == [fmt |-> "none", closed |-> FALSE, frames |-> <<>>, bad |-> -1,
             handle |-> FALSE, closes |-> 0]

\* The pims reader's own indexing, self._reader[index]: Python indexing
\* over its frames; the frame at `bad` cannot be decoded
BackendGetItem(rd, i) ==
    LET n == Len(rd.frames)
        k == IF i < 0 THEN n + i ELSE i
    IN  IF ~rd.handle THEN [status |-> "DecodeError", data |-> NoData]
        ELSE IF i < -n \/ i >= n
             THEN [status |-> "IndexOutOfRange", data |-> NoData]
        ELSE IF k = rd.bad THEN [status |-> "DecodeError", data |-> NoData]
        ELSE [status |-> "ok", data |-> [id |-> k, kind |-> rd.frames[k + 1]]]

\* PimsFormat.Reader._get_data
_get_data(rd, index) ==
    LET b == BackendGetItem(rd, index)
    IN  [status |-> b.status, data |-> b.data, decoded |-> <<index>>]

\* PimsFormat.Reader._get_length
_get_length(rd) == Len(rd.frames)

\* PimsFormat.Reader._close
_close(rd) == [rd EXCEPT !.handle = FALSE, !.closes = @ + 1]

\* imageio Format.Reader.get_data: refuses a closed Reader, then _get_data
get_data(rd, index) ==
    IF rd.closed
    THEN [status |-> "ClosedSequence", data |-> NoData, decoded |-> <<>>]
    ELSE _get_data(rd, index)

\* imageio Format.Reader.get_length
get_length(rd) == _get_length(rd)

\* imageio Format.Reader.close: a closed Reader is left alone
reader_close(rd) ==
    IF rd.closed THEN rd ELSE _close([rd EXCEPT !.closed = TRUE])

\* An optional index argument: None, or a one-element tuple holding the index
None == <<>>
Some(i) == <<i>>

\* PimsFormat.Reader._get_meta_data: the reader's own metadata for None,
\* else the metadata attribute of the frame self._reader[index]
_get_meta_data(rd, index) ==
    IF index = None
    THEN [status |-> "ok", meta |-> "global", decoded |-> <<>>]
    ELSE LET b == BackendGetItem(rd, index[1])
         IN  [status |-> b.status,
              meta |-> IF b.status = "ok" THEN "frame" ELSE "none",
              decoded |-> <<index[1]>>]

\* imageio Format.Reader.get_meta_data: refuses a closed Reader, then
\* _get_meta_data
get_meta_data(rd, index) ==
    IF rd.closed
    THEN [status |-> "ClosedSequence", meta |-> "none", decoded |-> <<>>]
    ELSE _get_meta_data(rd, index)

(***************************************************************************)
(* ImageIOReader.                                                          *)
(***************************************************************************)
\* get_frame asking the Reader for the frame after the one wanted
get_frame_next(rd, i) ==
    LET r == get_data(rd, i + 1)
    IN  IF r.status = "ok"
        THEN [status |-> "ok", decoded |-> r.decoded,
              frame |-> [payload |-> r.data, frame_no |-> i]]
        ELSE [status |-> r.status, decoded |-> r.decoded, frame |-> NoFrame]

\* get_frame numbering its frames from one
get_frame_one_based(rd, i) ==
    LET r == get_data(rd, i)
    IN  IF r.status = "ok"
        THEN [status |-> "ok", decoded |-> r.decoded,
              frame |-> [payload |-> r.data, frame_no |-> i + 1]]
        ELSE [status |-> r.status, decoded |-> r.decoded, frame |-> NoFrame]

\* get_frame keeping the frame read by the probe and serving it again
get_frame_keeps_probe(rd, i) ==
    LET r == get_data(rd, i)
    IN  IF r.status = "ok"
        THEN [status |-> "ok",
              decoded |-> IF i = 0 THEN <<>> ELSE r.decoded,
              frame |-> [payload |-> r.data, frame_no |-> i]]
        ELSE [status |-> r.status, decoded |-> r.decoded, frame |-> NoFrame]

\* ImageIOReader.get_frame
get_frame(rd, i) ==
    LET r == get_data(rd, i)
    IN  IF r.status = "ok"
        THEN [status |-> "ok", decoded |-> r.decoded,
              frame |-> [payload |-> r.data, frame_no |-> i]]
        ELSE [status |-> r.status, decoded |-> r.decoded, frame |-> NoFrame]

\* FramesSequence.__getitem__ for an integer key: the range check and the
\* wrap-around of a negative key come before get_frame
getitem(rd, n, key) ==
    IF key < -n \/ key >= n
    THEN [status |-> "IndexOutOfRange", decoded |-> <<>>, frame |-> NoFrame]
    ELSE get_frame(rd, IF key < 0 THEN n + key ELSE key)

\* the probe reading frame 1
first_frame_one(rd) == get_frame(rd, 1)

\* the probe of ImageIOReader.__init__: first_frame = self.get_frame(0)
first_frame(rd) == get_frame(rd, 0)

\* __len__ asking the Reader each time
len_live(n, rd) == get_length(rd)

\* ImageIOReader.__len__
len(n, rd) == n

\* close calling the Reader's _close hook itself
close_unguarded(rd) == _close([rd EXCEPT !.closed = TRUE])

\* ImageIOReader.close
close(rd) == reader_close(rd)

\* an iterator over a facade: the generator of __iter__ and, inside it, the
\* generator of imageio's iter_data; "fresh" before the first next(), n the
\* length iter_data read when it started, i the next position
NoIteration == [state |-> "none", i |-> 0, n |-> -1]
FreshIteration == [state |-> "fresh", i |-> 0, n |-> -1]

\* next() of imageio Format.Reader.iter_data at position i of n: one
\* _get_data(i), with no look at whether the Reader is closed
iter_data(rd, n, i) ==
    IF i >= n
    THEN [status |-> "StopIteration", data |-> NoData, decoded |-> <<>>]
    ELSE _get_data(rd, i)

\* next(it) that, once the iteration runs, reads the frame after the one due
iter_next_skips(rd, n, it) ==
    LET dead == [it EXCEPT !.state = "ended"]
        m == IF it.state = "fresh" THEN get_length(rd) ELSE it.n
        r == iter_data(rd, m, IF it.state = "fresh" THEN it.i ELSE it.i + 1)
    IN  IF it.state = "ended" \/ it.i >= n
        THEN [status |-> "StopIteration", frame |-> NoFrame,
              decoded |-> <<>>, it |-> dead]
        ELSE IF it.state = "fresh" /\ rd.closed
        THEN [status |-> "ClosedSequence", frame |-> NoFrame,
              decoded |-> <<>>, it |-> dead]
        ELSE IF r.status = "StopIteration"
        THEN [status |-> "RuntimeError", frame |-> NoFrame,
              decoded |-> r.decoded, it |-> dead]
        ELSE IF r.status # "ok"
        THEN [status |-> r.status, frame |-> NoFrame, decoded |-> r.decoded,
              it |-> dead]
        ELSE [status |-> "ok",
              frame |-> [payload |-> r.data, frame_no |-> it.i],
              decoded |-> r.decoded,
              it |-> [state |-> "running", i |-> it.i + 1, n |-> m]]

\* next(it) for an iterator `it` of ImageIOReader.__iter__ over a facade of
\* cached length n: the generator body starts at the first next(), where
\* iter_data refuses a closed Reader and reads its length; each next()
\* within range(len(self)) pulls one frame from iter_data and stamps it; an
\* exception ends the generator, and a StopIteration of iter_data raised
\* inside the generator body (iter_data ran out before range(len(self))
\* did) leaves it as RuntimeError
iter_next(rd, n, it) ==
    LET dead == [it EXCEPT !.state = "ended"]
        m == IF it.state = "fresh" THEN get_length(rd) ELSE it.n
        r == iter_data(rd, m, it.i)
    IN  IF it.state = "ended" \/ it.i >= n
        THEN [status |-> "StopIteration", frame |-> NoFrame,
              decoded |-> <<>>, it |-> dead]
        ELSE IF it.state = "fresh" /\ rd.closed
        THEN [status |-> "ClosedSequence", frame |-> NoFrame,
              decoded |-> <<>>, it |-> dead]
        ELSE IF r.status = "StopIteration"
        THEN [status |-> "RuntimeError", frame |-> NoFrame,
              decoded |-> r.decoded, it |-> dead]
        ELSE IF r.status # "ok"
        THEN [status |-> r.status, frame |-> NoFrame, decoded |-> r.decoded,
              it |-> dead]
        ELSE [status |-> "ok",
              frame |-> [payload |-> r.data, frame_no |-> it.i],
              decoded |-> r.decoded,
              it |-> [state |-> "running", i |-> it.i + 1, n |-> m]]

(***************************************************************************)
(* Inputs.                                                                 *)
(***************************************************************************)
NoRequest == [filename |-> <<>>, mode |-> "-"]

\* Request.mode[1]: the kind of data asked for; "?" is "don't care"
ModeFlags == {"i", "I", "v", "V", "?"}

Stems == {<<>>, <<"a">>, <<"a", ".", "b">>}
Tails == {<<".","t","i","f">>, <<".","T","i","F">>, <<"t","i","f">>,
          <<".","t","i","f",".","x">>, <<".","s","e","q">>,
          <<".","C","I","N","E">>, <<".","a","v","i">>, <<".","n","d","2">>,
          <<".","l","i","f">>, <<".","x">>, <<>>}

\* file names a caller may ask the registry about
FileNames == { s \o t : s \in Stems, t \in Tails }

\* path expressions given to open()
OpenNames == {<<"a",".","t","i","f">>, <<"a",".","T","i","F">>,
              <<"a",".","x">>, <<"a","*",".","t","i","f">>, <<"d">>,
              <<"a","[","b","]",".","x">>}

\* glob.has_magic
has_magic(s) == \E k \in 1..Len(s) : s[k] \in {"*", "?", "["}

\* what glob.glob(sequence) can return for a path expression, by count, given
\* whether the path exists (os.path.exists): a pattern is matched against
\* the listing of its directory, so it can match any number of files, and
\* none even when a file of exactly that name exists (a character class
\* need not match "[", a directory that cannot be listed gives no matches);
\* a name without magic is matched when it is there at all (lexists), which
\* a dangling link is without existing
GlobCounts(s, exists) ==
    IF has_magic(s) THEN 0..MaxMatches
    ELSE IF exists THEN {1} ELSE {0, 1}

\* what a file may hold: up to MaxFrames frames
Contents == UNION { [1..n -> FrameKinds] : n \in 0..MaxFrames }

\* integer keys a caller may index with
Keys == -(MaxFrames + 1)..MaxFrames

Result(op, arg, status) ==
    [op |-> op, arg |-> arg, status |-> status, frame |-> NoFrame,
     decoded |-> <<>>, num |-> -1, shape |-> <<>>, dtype |-> "none",
     meta |-> "none", name |-> "none", requires |-> "none"]

AvailChoices == SUBSET OptionalLibs

(***************************************************************************)
(* Values of the viewer (src/pims/viewer.py).                              *)
(*                                                                         *)
(* An image is the frame it was read from and the transforms applied to    *)
(* it since, in order; a reader is an identity and the kinds of its        *)
(* frames.                                                                 *)
(***************************************************************************)
NoImage == [rid |-> -1, k |-> -1, kind |-> "none", ops |-> <<>>]

\* self.reader before __init__ has assigned it
UnsetReader == [id |-> -1, frames |-> <<>>, bad |-> -1, array |-> FALSE]

\* np.zeros((1, 128, 128)): one blank frame, and no close() method
Placeholder ==
    [id |-> -2, frames |-> <<"zeros128x128">>, bad |-> -1, array |-> TRUE]

\* a pims reader handed to the viewer: id 0 for the constructor's argument,
\* n >= 1 for the n-th file opened through open_file
\* the frame at `bad`, if any, cannot be read
PimsReader(id, content, bad) ==
    [id |-> id, frames |-> content, bad |-> bad, array |-> FALSE]

NoSlider == [val |-> -1, low |-> -1, high |-> -1]

NoViewer ==
    [pipelines |-> <<>>, index |-> -1, reader |-> UnsetReader,
     original_image |-> NoImage, image |-> NoImage, plugins |-> <<>>,
     slider |-> NoSlider, opens |-> 0]

VResult(op, arg, status) == [op |-> op, arg |-> arg, status |-> status]

\* image filters a plugin may carry; "F" is written for 2-D images only
Transforms == {"A", "F"}

\* show() has returned no list yet
NoChain == [reader |-> UnsetReader, nodes |-> <<>>]

\* what update_plugin(name, value) may be called with: setattr on the two
\* attributes of a plugin the pipeline depends on, another filter, or no
\* pipeline_index, or one counted from the end
PluginUpdates ==
    { <<"image_filter", f>> : f \in Transforms } \cup
    { <<"pipeline_index", x>> : x \in {None, Some(-1)} }

\* the paths QFileDialog.getOpenFileName, or a caller, hands to open_file:
\* the path of one file
DialogNames == {<<"a",".","t","i","f">>, <<"a",".","x">>}

Init ==
    /\ avail \in AvailChoices
    /\ names = Bindings(avail)
    /\ formats = Registrations(avail)
    /\ request = NoRequest
    /\ resolved = "none"
    /\ lookups = 0
    /\ nmatched = -1
    /\ fexists = FALSE
    /\ dirImages = -1
    /\ kind = "none"
    /\ phase = "none"
    /\ reader = NoReader
    /\ closeCalls = 0
    /\ _len = -1
    /\ _shape = <<>>
    /\ _dtype = "none"
    /\ lenAtOpen = -1
    /\ iteration = NoIteration
    /\ out = Result("import", 0, "ok")
    /\ viewer = NoViewer
    /\ vphase = "none"
    /\ closedReaders = {}
    /\ plugs = <<>>
    /\ chain = NoChain
    /\ vout = VResult("none", 0, "ok")

(***************************************************************************)
(* The registry asked directly (imageio's formats.search_read_format).     *)
(***************************************************************************)
SearchReadFormat(fn, mode) ==
    LET req == [filename |-> fn, mode |-> mode]
        fmt == search_read_format(formats, req)
    IN  /\ lookups < MaxLookups
        /\ request' = req
        /\ resolved' = fmt
        /\ lookups' = lookups + 1
        /\ out' = Result("search", 0,
                         IF fmt = "none" THEN "UnsupportedFormat" ELSE "ok")
        /\ UNCHANGED <<registryVars, facadeVars, viewerVars>>

(***************************************************************************)
(* A public reader name called directly, e.g. pims.TiffStack(filename).    *)
(***************************************************************************)
Construct(n, ctorFails) ==
    LET b == names[n]
        r == raiser(b.requirement)
    IN  /\ out' = IF b.stub
                  THEN [Result("construct", 0, r.status)
                          EXCEPT !.name = n, !.requires = r.requires]
                  ELSE [Result("construct", 0,
                               IF ctorFails THEN "BackendOpenError" ELSE "ok")
                          EXCEPT !.name = n]
        /\ UNCHANGED <<registryVars, lookupVars, facadeVars, viewerVars>>

(***************************************************************************)
(* open() and ImageIOReader.__init__.                                      *)
(***************************************************************************)
\* imageio.get_reader(filename): the Request (the file must exist), the
\* registry lookup with mode "?", then the Reader, whose _open builds the
\* pims reader over the file
get_reader(fn, exists, content, badIdx, ctorFails) ==
    LET req == [filename |-> fn, mode |-> "?"]
        fmt == search_read_format(formats, req)
    IN  IF ~exists
        THEN [status |-> "NoMatchingFiles", asked |-> FALSE, fmt |-> "none",
              rd |-> NoReader]
        ELSE IF fmt = "none"
        THEN [status |-> "UnsupportedFormat", asked |-> TRUE, fmt |-> "none",
              rd |-> NoReader]
        ELSE IF ctorFails
        THEN [status |-> "BackendOpenError", asked |-> TRUE, fmt |-> fmt,
              rd |-> NoReader]
        ELSE [status |-> "ok", asked |-> TRUE, fmt |-> fmt,
              rd |-> [fmt |-> fmt, closed |-> FALSE, frames |-> content,
                      bad |-> badIdx, handle |-> TRUE, closes |-> 0]]

\* ImageIOReader.__init__
ImageIOReader(fn, exists, content, badIdx, ctorFails) ==
    LET g == get_reader(fn, exists, content, badIdx, ctorFails)
        n == get_length(g.rd)
        probe == first_frame(g.rd)
    IN  /\ kind' = "ImageIOReader"
        /\ closeCalls' = 0
        /\ IF g.asked
           THEN /\ request' = [filename |-> fn, mode |-> "?"]
                /\ resolved' = g.fmt
                /\ lookups' = lookups + 1
           ELSE UNCHANGED lookupVars
        /\ IF g.status # "ok"
           THEN /\ phase' = "failed"
                /\ reader' = NoReader
                /\ _len' = -1 /\ _shape' = <<>> /\ _dtype' = "none"
                /\ lenAtOpen' = -1
                /\ out' = Result("open", 0, g.status)
           ELSE IF probe.status # "ok"
           THEN /\ phase' = "failed"
                /\ reader' = g.rd
                /\ _len' = -1 /\ _shape' = <<>> /\ _dtype' = "none"
                /\ lenAtOpen' = n
                /\ out' = [Result("open", 0, probe.status)
                              EXCEPT !.decoded = probe.decoded]
           ELSE /\ phase' = "constructed"
                /\ reader' = g.rd
                /\ _len' = n
                /\ _shape' = Shape(probe.frame.payload.kind)
                /\ _dtype' = Dtype(probe.frame.payload.kind)
                /\ lenAtOpen' = n
                /\ out' = [Result("open", 0, "ok")
                              EXCEPT !.decoded = probe.decoded]

\* ImageSequence(sequence): one frame per matched file
ImageSequence(nfiles) ==
    /\ kind' = "ImageSequence"
    /\ phase' = "constructed"
    /\ reader' = NoReader
    /\ closeCalls' = 0
    /\ _len' = nfiles
    /\ _shape' = <<>> /\ _dtype' = "none"
    /\ lenAtOpen' = nfiles
    /\ out' = [Result("open", 0, "ok") EXCEPT !.num = nfiles]
    /\ UNCHANGED lookupVars

\* open() that takes the collection branch for a single match too
open_one_match_is_collection(fn, nfiles, exists, content, badIdx, ctorFails) ==
    /\ nmatched' = nfiles
    /\ IF nfiles >= 1
       THEN ImageSequence(nfiles)
       ELSE ImageIOReader(fn, exists, content, badIdx, ctorFails)

\* open() that takes the single-file branch for exactly one match only
open_not_one_is_collection(fn, nfiles, exists, content, badIdx, ctorFails) ==
    /\ nmatched' = nfiles
    /\ IF nfiles # 1
       THEN ImageSequence(nfiles)
       ELSE ImageIOReader(fn, exists, content, badIdx, ctorFails)

\* open(sequence): nfiles is len(glob.glob(sequence))
open(fn, nfiles, exists, content, badIdx, ctorFails) ==
    /\ nmatched' = nfiles
    /\ IF nfiles > 1
       THEN ImageSequence(nfiles)
       ELSE ImageIOReader(fn, exists, content, badIdx, ctorFails)

\* what the path names: -1 for a file (or nothing), else a directory holding
\* that many images, which no pims reader can be built over
DirChoices(fn, exists, content, ctorFails) ==
    {-1} \cup
    { d \in 1..MaxMatches :
        exists /\ ~has_magic(fn) /\ ctorFails /\ content = <<>> }

\* a caller opens a path expression
Open ==
    /\ phase = "none"
    /\ \E fn \in OpenNames, exists \in BOOLEAN, content \in Contents,
          ctorFails \in BOOLEAN :
          \E nfiles \in GlobCounts(fn, exists),
             badIdx \in -1..(Len(content) - 1),
             d \in DirChoices(fn, exists, content, ctorFails) :
             /\ open(fn, nfiles, exists, content, badIdx, ctorFails)
             /\ fexists' = exists
             /\ dirImages' = d
    /\ UNCHANGED <<registryVars, iteration, viewerVars>>

(***************************************************************************)
(* Operations on a constructed ImageIOReader.                              *)
(***************************************************************************)
IsFacade == phase = "constructed" /\ kind = "ImageIOReader"

\* facade[key] for an integer key
Get ==
    /\ IsFacade
    /\ \E key \in Keys :
          LET r == getitem(reader, _len, key)
          IN  out' = [Result("get", key, r.status)
                        EXCEPT !.frame = r.frame, !.decoded = r.decoded]
    /\ UNCHANGED <<registryVars, lookupVars, facadeVars, viewerVars>>

\* len(facade)
Length ==
    /\ IsFacade
    /\ out' = [Result("len", 0, "ok") EXCEPT !.num = len(_len, reader)]
    /\ UNCHANGED <<registryVars, lookupVars, facadeVars, viewerVars>>

\* ImageIOReader.frame_shape
frame_shape ==
    /\ IsFacade
    /\ out' = [Result("frame_shape", 0, "ok") EXCEPT !.shape = _shape]
    /\ UNCHANGED <<registryVars, lookupVars, facadeVars, viewerVars>>

\* ImageIOReader.pixel_type
pixel_type ==
    /\ IsFacade
    /\ out' = [Result("pixel_type", 0, "ok") EXCEPT !.dtype = _dtype]
    /\ UNCHANGED <<registryVars, lookupVars, facadeVars, viewerVars>>

\* the optional index a caller may pass when asking for metadata
IndexArgs == {None} \cup { Some(k) : k \in 0..(MaxFrames - 1) }

\* ImageIOReader.get_metadata: def get_metadata(self) takes no index, so a
\* call that passes one is refused by the interpreter before the body runs
get_metadata ==
    /\ IsFacade
    /\ \E index \in IndexArgs :
          IF index # None
          THEN out' = Result("get_metadata_at", index[1], "TypeError")
          ELSE LET m == get_meta_data(reader, None)
               IN  out' = [Result("get_metadata", 0, m.status)
                             EXCEPT !.meta = m.meta, !.decoded = m.decoded]
    /\ UNCHANGED <<registryVars, lookupVars, facadeVars, viewerVars>>

\* the bridge asked directly: facade.reader.get_meta_data(index)
ReaderGetMetaData ==
    /\ IsFacade
    /\ \E index \in IndexArgs :
          LET m == get_meta_data(reader, index)
          IN  out' = [Result(IF index = None THEN "get_meta_data"
                                             ELSE "get_meta_data_at",
                             IF index = None THEN 0 ELSE index[1], m.status)
                        EXCEPT !.meta = m.meta, !.decoded = m.decoded]
    /\ UNCHANGED <<registryVars, lookupVars, facadeVars, viewerVars>>

\* it = iter(facade): a generator object is made and none of its body runs
__iter__ ==
    /\ IsFacade
    /\ iteration' = FreshIteration
    /\ out' = Result("iter", 0, "ok")
    /\ UNCHANGED <<registryVars, lookupVars, nmatched, inputVars, kind,
                   phase, reader, closeCalls, _len, _shape, _dtype,
                   lenAtOpen, viewerVars>>

\* next(it) on the iterator made last; the caller is free to do anything
\* with the facade between two of these
__next__ ==
    /\ IsFacade
    /\ iteration.state # "none"
    /\ LET r == iter_next(reader, _len, iteration)
       IN  /\ iteration' = r.it
           /\ out' = [Result("next", iteration.i, r.status)
                         EXCEPT !.frame = r.frame, !.decoded = r.decoded]
    /\ UNCHANGED <<registryVars, lookupVars, nmatched, inputVars, kind,
                   phase, reader, closeCalls, _len, _shape, _dtype,
                   lenAtOpen, viewerVars>>

\* facade.close()
Close ==
    /\ IsFacade
    /\ closeCalls < MaxCloses
    /\ reader' = close(reader)
    /\ closeCalls' = closeCalls + 1
    /\ out' = Result("close", 0, "ok")
    /\ UNCHANGED <<registryVars, lookupVars, nmatched, inputVars, kind,
                   phase, _len, _shape, _dtype, lenAtOpen, iteration,
                   viewerVars>>

\* the file under an open pims reader gains a frame
BackendGrow ==
    /\ IsFacade
    /\ reader.handle
    /\ Len(reader.frames) < MaxFrames
    /\ \E k \in FrameKinds : reader' = [reader EXCEPT !.frames = Append(@, k)]
    /\ UNCHANGED <<registryVars, lookupVars, nmatched, inputVars, kind,
                   phase, closeCalls, _len, _shape, _dtype, lenAtOpen,
                   iteration, out, viewerVars>>

(***************************************************************************)
(* The Viewer.                                                             *)
(***************************************************************************)
\* reader[i] as the viewer indexes its reader
ReaderGetItem(rd, i, closed) ==
    LET n == Len(rd.frames)
        k == IF i < 0 THEN n + i ELSE i
    IN  IF rd.id \in closed
        THEN [status |-> "ClosedSequence", image |-> NoImage]
        ELSE IF i < -n \/ i >= n
        THEN [status |-> "IndexOutOfRange", image |-> NoImage]
        ELSE IF k = rd.bad
        THEN [status |-> "DecodeError", image |-> NoImage]
        ELSE [status |-> "ok",
              image |-> [rid |-> rd.id, k |-> k, kind |-> rd.frames[k + 1],
                         ops |-> <<>>]]

\* func(image) for a slot of viewer.pipelines: None is not callable; the
\* function a plugin emitted, lambda x: self.image_filter(x, ...), looks the
\* plugin's image_filter up when it is called; "F" raises on a colour frame
Call(func, image, ps) ==
    IF func = None THEN [status |-> "TypeError", image |-> NoImage]
    ELSE LET f == ps[func[1]].image_filter
         IN  IF f = "F" /\ image.kind = "rgb16"
             THEN [status |-> "TransformError", image |-> NoImage]
             ELSE [status |-> "ok",
                   image |-> [image EXCEPT !.ops = Append(@, f)]]

\* the loop of update_image: for func in self.pipelines: image = func(image)
RECURSIVE RunPipeline(_, _, _, _)
RunPipeline(image, funcs, k, ps) ==
    IF k > Len(funcs) THEN [status |-> "ok", image |-> image]
    ELSE LET r == Call(funcs[k], image, ps)
         IN  IF r.status # "ok" THEN r
             ELSE RunPipeline(r.image, funcs, k + 1, ps)

\* Viewer.update_image: self.image is assigned only when the loop finishes
update_image(v, ps) ==
    LET r == RunPipeline(v.original_image, v.pipelines, 1, ps)
    IN  IF r.status = "ok"
        THEN [status |-> "ok", v |-> [v EXCEPT !.image = r.image]]
        ELSE [status |-> r.status, v |-> v]

\* the position (from 1) a Python list of length n gives the index i
PyIndex(i, n) == (IF i < 0 THEN n + i ELSE i) + 1

\* Viewer.update_pipeline
update_pipeline(v, index, func, ps) ==
    IF index < -Len(v.pipelines) \/ index >= Len(v.pipelines)
    THEN [status |-> "IndexOutOfRange", v |-> v]
    ELSE update_image(
            [v EXCEPT !.pipelines[PyIndex(index, Len(v.pipelines))] = func],
            ps)

\* PipelinePlugin.filter_image of plugin p: emits
\* pipeline_changed(pipeline_index, func), a Signal(int, FunctionType), to
\* the slots connected to it: Viewer.update_pipeline once Viewer.__add__
\* has connected it, else no one
filter_image(v, ps, p) ==
    IF ps[p].pipeline_index = None
    THEN [status |-> "TypeError", v |-> v]
    ELSE IF ~ps[p].connected THEN [status |-> "ok", v |-> v]
    ELSE update_pipeline(v, ps[p].pipeline_index[1], Some(p), ps)

\* PipelinePlugin.attach of a plugin just made with image_filter f
attach(v, ps, f, connected) ==
    LET p == Len(ps) + 1
        ps1 == Append(ps, [image_filter |-> f,
                           pipeline_index |-> Some(Len(v.pipelines)),
                           connected |-> connected])
        v1 == [v EXCEPT !.plugins = Append(@, p),
                        !.pipelines = Append(@, None)]
        r == filter_image(v1, ps1, p)
    IN  [status |-> r.status, v |-> r.v, ps |-> ps1]

\* PipelinePlugin.update_plugin(name, value): setattr(self, name, value)
update_plugin(ps, p, name, value) == [ps EXCEPT ![p][name] = value]

\* del list[k] by position (from 1)
RemoveAt(q, k) == SubSeq(q, 1, k - 1) \o SubSeq(q, k + 1, Len(q))

\* list.remove(x): the first element equal to x goes; x is in the list
Remove(q, x) ==
    RemoveAt(q, CHOOSE k \in 1..Len(q) :
                    q[k] = x /\ \A j \in 1..(k - 1) : q[j] # x)

\* PipelinePlugin.cancel_pipeline of plugin p: the plugin leaves
\* viewer.plugins if it is there, then the slot its pipeline_index names is
\* deleted, then the image is recomputed
cancel_pipeline(v, ps, p) ==
    LET index == ps[p].pipeline_index
        v1 == IF \E k \in 1..Len(v.plugins) : v.plugins[k] = p
              THEN [v EXCEPT !.plugins = Remove(@, p)]
              ELSE v
        n == Len(v1.pipelines)
    IN  IF index = None THEN update_image(v1, ps)
        ELSE IF index[1] < -n \/ index[1] >= n
        THEN [status |-> "IndexOutOfRange", v |-> v1]
        ELSE update_image(
                [v1 EXCEPT !.pipelines = RemoveAt(@, PyIndex(index[1], n))],
                ps)

\* min(max(index, 0), len(self.reader) - 1) for an integer index
Clamp(x, n) ==
    LET lo == IF x > 0 THEN x ELSE 0
    IN  IF lo < n - 1 THEN lo ELSE n - 1

\* int(round(x)) for a number x given in halves (h stands for h/2): a whole
\* number is kept, and x.5 goes to the even one of its two neighbours
round(h) ==
    LET q == (h - 1) \div 2
    IN  IF h % 2 = 0 THEN h \div 2
        ELSE IF q % 2 = 0 THEN q ELSE q + 1

\* Viewer.update_index, for an index given in halves
update_index(v, x, closed, ps) ==
    LET index == Clamp(round(x), Len(v.reader.frames))
        v1 == [v EXCEPT !.index = index, !.slider.val = index]
        g == ReaderGetItem(v1.reader, v1.index, closed)
    IN  IF index = v.index THEN [status |-> "ok", v |-> v]
        ELSE IF g.status # "ok" THEN [status |-> g.status, v |-> v1]
        ELSE update_image([v1 EXCEPT !.original_image = g.image], ps)

\* the attributes and methods class Viewer defines or assigns (those it
\* inherits from QMainWindow aside)
ViewerAttributes ==
    {"dock_areas", "pipelines", "index", "reader", "file_menu",
     "main_widget", "fig", "ax", "canvas", "_tools", "useblit",
     "_blit_manager", "_image_plot", "original_image", "plugins", "layout",
     "status_message", "slider", "__add__", "_add_widget_size", "open_file",
     "update_index", "update_image", "update_pipeline", "save_to_file",
     "closeEvent", "show", "redraw", "image", "_img", "connect_event",
     "disconnect_event", "_update_status_bar"}

\* try: self.reader.close() except: pass -- an array has no close()
CloseCurrent(v, closed) ==
    IF v.reader.array THEN closed ELSE closed \cup {v.reader.id}

\* open_file closing the current reader before it opens the new file
open_file_closes_first(v, chosen, opened, closed, ps) ==
    LET cl == CloseCurrent(v, closed)
        v1 == [v EXCEPT !.reader = opened.rd, !.opens = @ + 1]
        v2 == [v1 EXCEPT !.slider.low = 0,
                         !.slider.high = Len(opened.rd.frames) - 1,
                         !.slider.val = 0]
        u == update_index(v2, 0, cl, ps)
    IN  IF ~chosen
        THEN [status |-> "ok", v |-> v, closed |-> closed]
        ELSE IF opened.status # "ok"
        THEN [status |-> opened.status, v |-> v, closed |-> cl]
        ELSE IF "num_images" \notin ViewerAttributes
        THEN [status |-> "AttributeError", v |-> v1, closed |-> cl]
        ELSE [status |-> u.status, v |-> u.v, closed |-> cl]

\* Viewer.open_file: `chosen` is whether a non-empty filename came out of
\* the argument or the dialog, `opened` what pims.open(filename) did
open_file(v, chosen, opened, closed, ps) ==
    LET cl == CloseCurrent(v, closed)
        v1 == [v EXCEPT !.reader = opened.rd, !.opens = @ + 1]
        v2 == [v1 EXCEPT !.slider.low = 0,
                         !.slider.high = Len(opened.rd.frames) - 1,
                         !.slider.val = 0]
        u == update_index(v2, 0, cl, ps)
    IN  IF ~chosen
        THEN [status |-> "ok", v |-> v, closed |-> closed]
        ELSE IF opened.status # "ok"
        THEN [status |-> opened.status, v |-> v, closed |-> closed]
        ELSE IF "num_images" \notin ViewerAttributes
        THEN [status |-> "AttributeError", v |-> v1, closed |-> cl]
        ELSE [status |-> u.status, v |-> u.v, closed |-> cl]

\* the list Viewer.show builds: the chain of lazily transformed sequences,
\* each node holding its function and the position of the node it wraps
show(v) ==
    [k \in 1..(Len(v.pipelines) + 1) |->
        IF k = 1 THEN [node |-> "reader", func |-> None, upstream |-> 0]
        ELSE [node |-> "pipeline", func |-> v.pipelines[k - 1],
              upstream |-> k - 1]]

\* chain[k][i]: a pipeline node asks its upstream node, then applies its
\* function to what comes back
RECURSIVE ChainGetItem(_, _, _, _, _, _)
ChainGetItem(nodes, k, rd, i, closed, ps) ==
    IF nodes[k].node = "reader" THEN ReaderGetItem(rd, i, closed)
    ELSE LET u == ChainGetItem(nodes, nodes[k].upstream, rd, i, closed, ps)
         IN  IF u.status # "ok" THEN u ELSE Call(nodes[k].func, u.image, ps)

\* what the methods of Viewer and PipelinePlugin, open_file apart, leave alone
ViewerKept == UNCHANGED <<registryVars, lookupVars, facadeVars, out>>

\* the viewer exists: its methods and the callbacks of its widgets can run,
\* from the caller or from the event loop show() has entered
Alive == vphase \in {"constructed", "showing"}

\* Viewer(reader) or Viewer()
Viewer__init__ ==
    /\ vphase = "none"
    /\ \E given \in BOOLEAN, content \in Contents,
          bad \in -1..(MaxFrames - 1) :
          LET rd == IF given THEN PimsReader(0, content, bad) ELSE Placeholder
              v0 == [NoViewer EXCEPT !.index = 0, !.reader = rd]
              \* image = reader[0] reads the argument, not self.reader
              g == IF given THEN ReaderGetItem(rd, 0, closedReaders)
                   ELSE [status |-> "TypeError", image |-> NoImage]
              u == update_image([v0 EXCEPT !.original_image = g.image],
                                plugs)
              v2 == [u.v EXCEPT !.slider =
                        [val |-> 0, low |-> 0, high |-> Len(rd.frames) - 1]]
          IN  /\ (~given) => (content = <<>> /\ bad = -1)
              /\ bad < Len(content)
              /\ IF g.status # "ok"
                 THEN /\ viewer' = v0
                      /\ vphase' = "failed"
                      /\ vout' = VResult("Viewer", 0, g.status)
                 ELSE /\ viewer' = v2
                      /\ vphase' = "constructed"
                      /\ vout' = VResult("Viewer", 0, u.status)
    /\ UNCHANGED <<closedReaders, plugs, chain>>
    /\ ViewerKept

\* viewer += PipelinePlugin(image_filter=f): the plugin's signal is
\* connected to update_pipeline, then the plugin attaches itself
__add__ ==
    /\ Alive
    /\ Len(plugs) < MaxPlugins
    /\ \E f \in Transforms :
          LET r == attach(viewer, plugs, f, TRUE)
          IN  /\ viewer' = r.v
              /\ plugs' = r.ps
              /\ vout' = VResult("add", Len(viewer.pipelines), r.status)
    /\ UNCHANGED <<vphase, closedReaders, chain>>
    /\ ViewerKept

\* PipelinePlugin(image_filter=f).attach(viewer), called by hand: nothing
\* has connected the plugin's signal
Attach ==
    /\ Alive
    /\ Len(plugs) < MaxPlugins
    /\ \E f \in Transforms :
          LET r == attach(viewer, plugs, f, FALSE)
          IN  /\ viewer' = r.v
              /\ plugs' = r.ps
              /\ vout' = VResult("attach", Len(viewer.pipelines), r.status)
    /\ UNCHANGED <<vphase, closedReaders, chain>>
    /\ ViewerKept

\* a widget of a plugin changes, or filter_image is called: the plugin,
\* attached still or cancelled, emits its function again
FilterImage ==
    /\ Alive
    /\ \E p \in 1..Len(plugs) :
          LET r == filter_image(viewer, plugs, p)
          IN  /\ viewer' = r.v
              /\ vout' = VResult("filter_image", p, r.status)
    /\ UNCHANGED <<vphase, closedReaders, plugs, chain>>
    /\ ViewerKept

\* a 'plugin' widget changes, or update_plugin is called
UpdatePlugin ==
    /\ Alive
    /\ \E p \in 1..Len(plugs), u \in PluginUpdates :
          /\ plugs' = update_plugin(plugs, p, u[1], u[2])
          /\ vout' = VResult("update_plugin", p, "ok")
    /\ UNCHANGED <<viewer, vphase, closedReaders, chain>>
    /\ ViewerKept

\* the dock of a plugin is closed, or cancel_pipeline is called, on a plugin
\* attached still or cancelled before
CancelPipeline ==
    /\ Alive
    /\ \E p \in 1..Len(plugs) :
          LET r == cancel_pipeline(viewer, plugs, p)
          IN  /\ viewer' = r.v
              /\ vout' = VResult("cancel_pipeline", p, r.status)
    /\ UNCHANGED <<vphase, closedReaders, plugs, chain>>
    /\ ViewerKept

\* the numbers update_index is called with, in halves: -1, 0.5, 1, 1.5 and
\* MaxFrames + 0.5 (before the first frame, fractions rounded down and up,
\* a whole number, past the last frame)
IndexInputs == {-2, 1, 2, 3, 2 * MaxFrames + 1}

\* the slider, or a caller, selects a frame
UpdateIndex ==
    /\ Alive
    /\ \E x \in IndexInputs :
          LET r == update_index(viewer, x, closedReaders, plugs)
          IN  /\ viewer' = r.v
              /\ vout' = VResult("update_index", x, r.status)
    /\ UNCHANGED <<vphase, closedReaders, plugs, chain>>
    /\ ViewerKept

\* what pims.open(filename) gave open_file, read off the facade that open()
\* has just built: the exception, or the ImageIOReader as reader number id
Opened(id) ==
    IF phase' = "constructed"
    THEN [status |-> "ok",
          rd |-> PimsReader(id, SubSeq(reader'.frames, 1, _len'),
                            reader'.bad)]
    ELSE [status |-> "OpenError", rd |-> UnsetReader]

\* Viewer.open_file with no file chosen: nothing is opened
OpenFileNone ==
    /\ Alive
    /\ LET r == open_file(viewer, FALSE, [status |-> "OpenError",
                                           rd |-> UnsetReader],
                          closedReaders, plugs)
       IN  /\ viewer' = r.v
           /\ closedReaders' = r.closed
           /\ vout' = VResult("open_file", 0, r.status)
    /\ UNCHANGED <<vphase, plugs, chain>>
    /\ ViewerKept

\* Viewer.open_file on a path: pims.open, which is open() of api.py, asks
\* the registry and builds an ImageIOReader over the file, or raises; when
\* it returns the current reader is closed and replaced
OpenFile ==
    /\ Alive
    \* as for Open: open() is called once
    /\ phase = "none"
    /\ \E fn \in DialogNames, exists \in BOOLEAN, content \in Contents,
          ctorFails \in BOOLEAN :
          \E nfiles \in GlobCounts(fn, exists),
             badIdx \in -1..(Len(content) - 1) :
             \* a path that is not there, or over which no reader can be
             \* built, has no frames to speak of
             /\ (~exists \/ ctorFails) => content = <<>>
             /\ ~exists => ~ctorFails
             /\ open(fn, nfiles, exists, content, badIdx, ctorFails)
             /\ fexists' = exists
             \* the dialog selects files, not directories
             /\ dirImages' = -1
             /\ LET r == open_file(viewer, TRUE, Opened(viewer.opens + 1),
                                   closedReaders, plugs)
                IN  /\ viewer' = r.v
                    /\ closedReaders' = r.closed
                    /\ vout' = VResult("open_file", 1, r.status)
    /\ UNCHANGED <<registryVars, iteration, vphase, plugs, chain>>

\* Viewer.show() up to start_qtapp(): the windows are shown and the event
\* loop is entered, from which the callbacks of the widgets run; the
\* application calls show() once
ShowEnter ==
    /\ vphase = "constructed"
    /\ chain = NoChain
    /\ vphase' = "showing"
    /\ vout' = VResult("start_qtapp", 0, "ok")
    /\ UNCHANGED <<viewer, closedReaders, plugs, chain>>
    /\ ViewerKept

\* Viewer.show() after the event loop: the list is built from the reader
\* and the pipelines as they are now, and returned; no frame is read
ShowReturn ==
    /\ vphase = "showing"
    /\ vphase' = "constructed"
    /\ chain' = [reader |-> viewer.reader, nodes |-> show(viewer)]
    /\ vout' = VResult("show", Len(viewer.pipelines) + 1, "ok")
    /\ UNCHANGED <<viewer, closedReaders, plugs>>
    /\ ViewerKept

\* the caller indexes the last element of the list show() returned:
\* chain[-1][i]
ChainRead ==
    /\ chain # NoChain
    /\ \E i \in 0..(MaxFrames - 1) :
          LET r == ChainGetItem(chain.nodes, Len(chain.nodes), chain.reader,
                                i, closedReaders, plugs)
          IN  vout' = VResult("chain_getitem", i, r.status)
    /\ UNCHANGED <<viewer, vphase, closedReaders, plugs, chain>>
    /\ ViewerKept

Next ==
    \/ Open
    \/ Get
    \/ Length
    \/ frame_shape
    \/ pixel_type
    \/ get_metadata
    \/ ReaderGetMetaData
    \/ Close
    \/ BackendGrow

Spec == Init /\ [][Next]_vars

NextFormats == \E fn \in FileNames, mode \in ModeFlags : SearchReadFormat(fn, mode)

SpecFormats == Init /\ [][NextFormats]_vars

\* a facade that is opened, iterated one next() at a time, and indexed,
\* measured, asked for metadata and closed between them, and whose file may
\* grow
NextIter ==
    \/ Open
    \/ __iter__
    \/ __next__
    \/ Get
    \/ Length
    \/ get_metadata
    \/ ReaderGetMetaData
    \/ Close
    \/ BackendGrow

\* an iteration does not depend on which optional libraries are there
InitIter == Init /\ avail = OptionalLibs

SpecIter == InitIter /\ [][NextIter]_vars

NextNames == \E n \in PublicNames, ctorFails \in BOOLEAN : Construct(n, ctorFails)

SpecNames == Init /\ [][NextNames]_vars

\* the viewer does not depend on which optional libraries are there
InitViewer == Init /\ avail = OptionalLibs

\* The viewer is explored from three sides, because the product of all of
\* its operations is too large to enumerate.
\*
\* The frames side: plugins are added with + and stay, the index moves,
\* files are opened, show() runs and the chain it returns is read.
NextViewer ==
    \/ Viewer__init__
    \/ __add__
    \/ FilterImage
    \/ UpdateIndex
    \/ OpenFileNone
    \/ OpenFile
    \/ ShowEnter
    \/ ShowReturn
    \/ ChainRead

SpecViewer == InitViewer /\ [][NextViewer]_vars

\* The plugin side: plugins are added with + or attached directly, their
\* attributes are set, their docks are closed, while the index moves.
NextPlugins ==
    \/ Viewer__init__
    \/ __add__
    \/ Attach
    \/ FilterImage
    \/ UpdatePlugin
    \/ CancelPipeline
    \/ UpdateIndex

SpecPlugins == InitViewer /\ [][NextPlugins]_vars

\* The reader side: a viewer without plugins whose file is replaced.
NextOpenFile ==
    \/ Viewer__init__
    \/ UpdateIndex
    \/ OpenFileNone
    \/ OpenFile

SpecOpenFile == InitViewer /\ [][NextOpenFile]_vars

(***************************************************************************)
(* Properties.                                                             *)
(***************************************************************************)
Range(q) == { q[k] : k \in 1..Len(q) }

\* the line of api.py whose formats.add_format call registers each entry:
\* the module body is straight-line code, so an earlier line registers first
RegLine(f) ==
    CASE f = "Norpix"     -> 72
      [] f = "Cine"       -> 80
      [] f = "PyAV"       -> 93
      [] f = "Tifffile"   -> 108
      [] f = "Libtiff"    -> 117
      [] f = "PIL"        -> 126
      [] f = "Bioformats" -> 153
      [] f = "ND2_Reader" -> 166

\* the extension of a file name: its text from the last dot on
RECURSIVE LastDot(_, _)
LastDot(s, k) == IF k = 0 THEN 0 ELSE IF s[k] = "." THEN k ELSE LastDot(s, k - 1)

Extension(s) ==
    LET d == LastDot(s, Len(s))
    IN  IF d = 0 THEN <<>> ELSE SubSeq(s, d, Len(s))

\* C1: open() takes the image-collection branch (ImageSequence) exactly
\* when the path expression matched more than one file and the ImageIOReader
\* branch in every other case; an input with more than one match never
\* reaches the registry.
C1_DispatchOnMatches ==
    phase # "none" =>
        /\ kind \in {"ImageSequence", "ImageIOReader"}
        /\ (kind = "ImageSequence") <=> (nmatched > 1)
        /\ (kind = "ImageIOReader") <=> (nmatched <= 1)
        /\ nmatched > 1 => (request = NoRequest /\ lookups = 0)

C1_Witness ==
    /\ kind = "ImageSequence"
    /\ nmatched = MaxMatches
    /\ _len = nmatched

\* C2: whatever lookups came before, the registry (unchanged since import)
\* answers a request with the eligible entry that was registered first, and
\* with none only when no registered entry is eligible.
C2_FirstRegisteredWins ==
    /\ formats = Registrations(avail)
    /\ lookups > 0 =>
          LET eligible == { f \in Range(formats) : _can_read(f, request) }
          IN  IF eligible = {}
              THEN resolved = "none"
              ELSE /\ resolved \in eligible
                   /\ \A g \in eligible : RegLine(resolved) <= RegLine(g)

C2_Witness ==
    /\ lookups = MaxLookups
    /\ out.op = "search"
    /\ resolved = "Tifffile"
    /\ {"Libtiff", "PIL", "Bioformats"} \subseteq
          { f \in Range(formats) : _can_read(f, request) }

\* C3: a registered entry accepts a request exactly when the file name's
\* extension, lower-cased, is one of the entry's extensions and the mode flag
\* is one of the entry's modes or the wildcard "?"; it never accepts a write.
C3_Eligibility ==
    lookups > 0 =>
        \A f \in Range(formats) :
            /\ _can_read(f, request) <=>
                  /\ lower(Extension(request.filename)) \in extensions(f)
                  /\ (request.mode \in modes(f) \/ request.mode = "?")
            /\ ~_can_write(f, request)

C3_Witness ==
    /\ request.filename = <<"a", ".", "T", "i", "F">>
    /\ request.mode = "v"
    /\ out.op = "search"
    /\ "PyAV" \in Range(formats) /\ ~_can_read("PyAV", request)
    /\ "PIL" \in Range(formats) /\ _can_read("PIL", request)

\* the integer keys the facade accepts
ValidKeys == -_len..(_len - 1)

\* C4, the part api.py decides: after close(), get_frame(i) fails with
\* ClosedSequence for every i, in range or not, returning no frame and
\* asking the backend for nothing; and so does facade[key] for every key
\* that reaches get_frame, while a key outside [-length, length) is refused
\* with IndexOutOfRange as on an open facade.
C4_ClosedGetFails ==
    (IsFacade /\ reader.closed) =>
        /\ \A i \in Keys :
              get_frame(reader, i) =
                  [status |-> "ClosedSequence", decoded |-> <<>>,
                   frame |-> NoFrame]
        /\ out.op = "get" =>
              /\ out.frame = NoFrame
              /\ out.decoded = <<>>
              /\ out.status = IF out.arg \in ValidKeys
                              THEN "ClosedSequence" ELSE "IndexOutOfRange"

\* C4 read for facade[key] with any key: it depends on whether the range
\* check of __getitem__ or the closed check of the Reader comes first, and
\* with the range check first a key outside [-length, length) is refused
\* with IndexOutOfRange on a closed facade too.
C4_AnyIndexClosedSequence ==
    (IsFacade /\ reader.closed /\ out.op = "get") =>
        /\ out.status = "ClosedSequence"
        /\ out.frame = NoFrame
        /\ out.decoded = <<>>

\* get(-1) on a closed facade
C4_Witness ==
    /\ IsFacade /\ reader.closed
    /\ out.op = "get" /\ out.arg = -1
    /\ out.status = "ClosedSequence"

\* C5: however often close() is called, it succeeds, the backend is released
\* exactly once, and the facade is in the closed state the first call left.
C5_CloseIdempotent ==
    (IsFacade /\ closeCalls >= 1) =>
        /\ reader.closes = 1
        /\ reader.closed
        /\ ~reader.handle
        /\ out.op = "close" => out.status = "ok"

C5_Witness ==
    /\ IsFacade
    /\ closeCalls = MaxCloses
    /\ out.op = "close"
    /\ reader.closes = 1

\* C6: no backend handle is open without a constructed facade owning it; in
\* particular a constructor whose probe failed has closed the reader it
\* acquired.
C6_ProbeFailureReleases ==
    reader.handle => phase = "constructed"

\* C7: the facade's length is the backend's length as read at construction:
\* after any get, next() of an iteration, metadata and close calls, and
\* whatever the backend has become since, len() returns that value and asks
\* the backend for nothing.
C7_LengthCached ==
    IsFacade =>
        /\ _len = lenAtOpen
        /\ out.op = "len" => (out.num = lenAtOpen /\ out.decoded = <<>>)

\* len() after an iteration has run to its end, the file has grown and the
\* facade has been closed
C7_Witness ==
    /\ IsFacade
    /\ out.op = "len"
    /\ iteration.state = "ended"
    /\ iteration.i = lenAtOpen
    /\ lenAtOpen >= 1
    /\ Len(reader.frames) > lenAtOpen
    /\ reader.closed

\* C8: frame_shape and pixel_type are the shape and dtype of frame 0, which
\* the constructor decoded once; reading them decodes nothing, and they
\* agree with get(0) whenever get(0) succeeds.
C8_ShapeOfFrameZero ==
    IsFacade =>
        /\ _shape = Shape(reader.frames[1])
        /\ _dtype = Dtype(reader.frames[1])
        /\ out.op = "open" => out.decoded = <<0>>
        /\ out.op = "frame_shape" => (out.shape = _shape /\ out.decoded = <<>>)
        /\ out.op = "pixel_type" => (out.dtype = _dtype /\ out.decoded = <<>>)
        /\ LET g == getitem(reader, _len, 0)
           IN  g.status = "ok" =>
                   /\ Shape(g.frame.payload.kind) = _shape
                   /\ Dtype(g.frame.payload.kind) = _dtype

C8_Witness ==
    /\ IsFacade
    /\ out.op = "frame_shape"
    /\ Len(reader.frames) >= 2
    /\ reader.frames[1] # reader.frames[2]
    /\ getitem(reader, _len, 0).status = "ok"

\* C9: get(i) with i outside [-length, length) fails with IndexOutOfRange,
\* and no get asks the backend for an index outside [0, length).
C9_OutOfRange ==
    (IsFacade /\ out.op = "get") =>
        /\ out.arg \notin ValidKeys =>
              (out.status = "IndexOutOfRange" /\ out.decoded = <<>>
               /\ out.frame = NoFrame)
        /\ \A k \in Range(out.decoded) : k \in 0..(_len - 1)

C9_Witness ==
    /\ IsFacade /\ ~reader.closed
    /\ out.op = "get"
    /\ out.arg = _len
    /\ out.arg < Len(reader.frames)
    /\ out.status = "IndexOutOfRange"

\* C10: for i in [-n, -1], get(i) is get(n + i): the same payload, with
\* frame_index n + i; get(-1) carries frame_index length - 1.
C10_NegativeIndex ==
    IsFacade =>
        /\ \A i \in -_len..-1 :
              LET a == getitem(reader, _len, i)
                  b == getitem(reader, _len, _len + i)
              IN  /\ a.status = b.status
                  /\ a.frame.payload = b.frame.payload
                  /\ a.status = "ok" =>
                        (a.frame.frame_no = _len + i /\ a.frame.payload.id = _len + i)
        /\ (out.op = "get" /\ out.arg < 0 /\ out.status = "ok") =>
              /\ out.frame.frame_no = _len + out.arg
              /\ out.frame.payload = [id |-> _len + out.arg,
                                      kind |-> reader.frames[_len + out.arg + 1]]

C10_Witness ==
    /\ IsFacade
    /\ _len = 2
    /\ out.op = "get" /\ out.arg = -1 /\ out.status = "ok"
    /\ out.frame.frame_no = 1

(* ---- C14 ---- *)
\* some registered entry lists an extension the opened name ends with
ExtensionKnown(fn) ==
    \E f \in Range(formats) : endswith(lower(fn), extensions(f))

\* open() went to the single-file branch for a file that exists
OpenedOneFile ==
    /\ out.op = "open"
    /\ kind = "ImageIOReader"
    /\ fexists
    /\ dirImages = -1

\* C14: opening an existing file whose extension no registered entry lists
\* fails with UnsupportedFormat: the registry resolves nothing, no reader is
\* built and no facade is returned
C14_UnknownExtensionFails ==
    (OpenedOneFile /\ ~ExtensionKnown(request.filename)) =>
        /\ out.status = "UnsupportedFormat"
        /\ resolved = "none"
        /\ phase = "failed"
        /\ reader = NoReader

C14_Witness ==
    /\ OpenedOneFile
    /\ request.filename = <<"a", ".", "t", "i", "f">>
    /\ ~ExtensionKnown(request.filename)
    /\ formats # <<>>
    /\ out.status = "UnsupportedFormat"

(* ---- C17 ---- *)
\* C17: when the path expression matches no file as a glob and names no
\* existing path, open() fails with NoMatchingFiles before the registry is
\* asked (so never with UnsupportedFormat), and no reader is constructed
C17_NoMatchingFiles ==
    (out.op = "open" /\ nmatched = 0 /\ ~fexists) =>
        /\ out.status = "NoMatchingFiles"
        /\ lookups = 0
        /\ phase = "failed"
        /\ reader = NoReader

C17_Witness ==
    /\ out.op = "open"
    /\ nmatched = 0
    /\ ~fexists
    /\ kind = "ImageIOReader"
    /\ out.status = "NoMatchingFiles"

(* ---- C18 ---- *)
\* the index get_frame is called with for a key in range
Normalised(key) == IF key < 0 THEN _len + key ELSE key

\* C18: on an open facade every get of an index in range asks the backend
\* to decode exactly that index exactly once, also for frame 0 which the
\* constructor has already decoded once as its probe
C18_NoCaching ==
    /\ (out.op = "get" /\ ~reader.closed /\ out.arg \in ValidKeys) =>
           out.decoded = <<Normalised(out.arg)>>
    /\ (out.op = "open" /\ IsFacade) => out.decoded = <<0>>

C18_Witness ==
    /\ out.op = "get"
    /\ ~reader.closed
    /\ out.arg = 0
    /\ out.status = "ok"
    /\ out.decoded = <<0>>

(* ---- C15 ---- *)
\* the entries registered only when a library is there
OptionalFormats == { f \in FormatNames : Requires(f) # "none" }

\* the public name bound in the block that registers an entry
PublicName(f) ==
    CASE f = "PyAV"       -> "Video"
      [] f = "Tifffile"   -> "TiffStack_tifffile"
      [] f = "Libtiff"    -> "TiffStack_libtiff"
      [] f = "PIL"        -> "TiffStack_pil"
      [] f = "Bioformats" -> "Bioformats"
      [] f = "ND2_Reader" -> "ND2_Reader"

\* the libraries a requirement text names
Mentioned(requirement) ==
    CASE requirement = "PyAV and/or PIL/Pillow" -> {"PyAV", "PIL"}
      [] requirement = "tifffile" -> {"tifffile"}
      [] requirement = "libtiff" -> {"libtiff"}
      [] requirement = "PIL or Pillow" -> {"PIL"}
      [] requirement = "tifffile, libtiff, or PIL/Pillow" ->
           {"tifffile", "libtiff", "PIL"}
      [] requirement = "JPype" -> {"JPype"}
      [] requirement = "pims_nd2" -> {"pims_nd2"}
      [] OTHER -> {}

TiffLibs == {"tifffile", "libtiff", "PIL"}

\* C15: each optional entry is registered, with its public name bound to
\* the reader class, exactly when its library is available; otherwise the
\* entry is absent and the name is bound to a placeholder whose every call
\* fails with BackendUnavailable naming the missing library. The TiffStack
\* alias is the class of a registered TIFF entry, or such a placeholder
C15_OptionalBackends ==
    /\ \A f \in OptionalFormats :
          IF Requires(f) \in avail
          THEN /\ f \in Range(formats)
               /\ names[PublicName(f)] = Class(f)
          ELSE /\ f \notin Range(formats)
               /\ names[PublicName(f)].stub
               /\ Requires(f) \in Mentioned(names[PublicName(f)].requirement)
    /\ IF avail \cap TiffLibs # {}
       THEN \E f \in Range(formats) :
               /\ Requires(f) \in TiffLibs
               /\ names["TiffStack"] = Class(f)
       ELSE /\ names["TiffStack"].stub
            /\ Mentioned(names["TiffStack"].requirement) = TiffLibs
    /\ out.op = "construct" =>
          IF names[out.name].stub
          THEN /\ out.status = "BackendUnavailable"
               /\ out.requires = names[out.name].requirement
          ELSE out.status \in {"ok", "BackendOpenError"}

C15_Witness ==
    /\ out.op = "construct"
    /\ out.name = "TiffStack_libtiff"
    /\ "libtiff" \notin avail
    /\ "PIL" \in avail
    /\ "Libtiff" \notin Range(formats)
    /\ out.status = "BackendUnavailable"
    /\ out.requires = "libtiff"

(* ---- C16 ---- *)
\* C16: opening a directory that holds N images yields a constructed
\* sequence of one frame per file, N long. (Not so: glob.glob of a directory
\* path returns the path itself, one match, so open() hands the directory to
\* ImageIOReader as if it were a single file.)
C16_DirectoryRoundTrip ==
    (out.op = "open" /\ dirImages >= 1) =>
        /\ out.status = "ok"
        /\ phase = "constructed"
        /\ kind = "ImageSequence"
        /\ _len = dirImages

(* ---- C19 ---- *)
\* C19: on an open reader, metadata() gives the global metadata and
\* metadata(i), for i in range, the metadata of frame i without decoding
\* that frame, through the facade and through the bridge alike. (Not so: the
\* facade's get_metadata accepts no index, and the bridge's per-frame branch
\* indexes the pims reader, which decodes the frame.)
C19_Metadata ==
    /\ (out.op \in {"get_metadata", "get_meta_data"} /\ ~reader.closed) =>
          /\ out.status = "ok"
          /\ out.meta = "global"
    /\ (/\ out.op \in {"get_metadata_at", "get_meta_data_at"}
        /\ ~reader.closed
        /\ out.arg \in 0..(Len(reader.frames) - 1)
        /\ out.arg # reader.bad) =>
          /\ out.status = "ok"
          /\ out.meta = "frame"
          /\ out.decoded = <<>>

(* ---- C11 ---- *)
\* what indexing the last element of show()'s chain at i gives now
ChainAt(i) ==
    ChainGetItem(show(viewer), Len(viewer.pipelines) + 1, viewer.reader, i,
                 closedReaders, plugs)

\* the transforms applied in list order to the raw frame reader[i]
DirectAt(i) ==
    LET g == ReaderGetItem(viewer.reader, i, closedReaders)
    IN  IF g.status # "ok" THEN g
        ELSE RunPipeline(g.image, viewer.pipelines, 1, plugs)

\* show() returns len(pipelines)+1 nodes, the reader first, each later node
\* wrapping only the node before it
ChainShape ==
    LET nodes == show(viewer)
    IN  /\ Len(nodes) = Len(viewer.pipelines) + 1
        /\ nodes[1].node = "reader"
        /\ \A k \in 2..Len(nodes) :
              /\ nodes[k].node = "pipeline"
              /\ nodes[k].upstream = k - 1
              /\ nodes[k].func = viewer.pipelines[k - 1]

\* C11: in a constructed viewer, whenever the transforms can be applied to
\* the frame at the current index, the displayed image is the last element
\* of show()'s chain at that index, which is the transforms applied in list
\* order to reader[index]. (Not so once open_file has replaced the reader:
\* see C12.)
C11_PipelineAssociativity ==
    Alive =>
        /\ ChainShape
        /\ ChainAt(viewer.index) = DirectAt(viewer.index)
        /\ ChainAt(viewer.index).status = "ok" =>
              viewer.image = ChainAt(viewer.index).image

\* the same, for a viewer still showing the reader it was constructed with
C11_WithConstructorReader ==
    (Alive /\ viewer.reader.id = 0) =>
        /\ ChainShape
        /\ ChainAt(viewer.index) = DirectAt(viewer.index)
        /\ ChainAt(viewer.index).status = "ok" =>
              viewer.image = ChainAt(viewer.index).image

(* ---- C12 ---- *)
\* C12: after open_file on a file pims.open can read, the call has
\* returned, the viewer's reader is the new reader, the previous one is
\* closed, index and slider are 0 over [0, len - 1], and the source image is
\* frame 0 of the new reader. (Not so: open_file reads self.num_images,
\* which no Viewer has.)
C12_OpenFileDisplays ==
    (vout.op = "open_file" /\ vout.arg = 1 /\ vout.status # "OpenError") =>
        /\ vout.status = "ok"
        /\ viewer.reader.id = viewer.opens
        /\ (viewer.opens - 1) \in closedReaders
        /\ viewer.index = 0
        /\ viewer.slider = [val |-> 0, low |-> 0,
                            high |-> Len(viewer.reader.frames) - 1]
        /\ viewer.original_image =
              ReaderGetItem(viewer.reader, 0, closedReaders).image

(* ---- C13 ---- *)
\* C13: every update_index is evaluated afresh: its outcome is that of
\* applying the transforms to the frame at the clamped index now (failing
\* with TransformError exactly when a transform fails on that frame), and
\* when it succeeds that result is what is displayed; stated for a viewer on
\* the reader it was constructed with. (Not so: a failed access has already
\* moved self.index, so the retry returns early and the old image stays.)
C13_FailuresIsolated ==
    (Alive /\ viewer.reader.id = 0
        /\ vout.op = "update_index") =>
        LET t == Clamp(round(vout.arg), Len(viewer.reader.frames))
        IN  /\ vout.status = ChainAt(t).status
            /\ vout.status = "ok" =>
                  /\ viewer.index = t
                  /\ viewer.image = ChainAt(t).image

(* ---- C20 ---- *)
\* C20: Viewer() without a reader succeeds: the viewer's reader is the
\* one-frame placeholder, the index is 0 and that frame is displayed. (Not
\* so: __init__ indexes its argument, None, not self.reader.)
C20_ViewerWithoutReader ==
    (vout.op = "Viewer" /\ viewer.reader = Placeholder) =>
        /\ vphase = "constructed"
        /\ vout.status = "ok"
        /\ Len(viewer.reader.frames) = 1
        /\ viewer.index = 0
        /\ viewer.image = ReaderGetItem(Placeholder, 0, closedReaders).image

(* ---- C24 ---- *)
\* frame k of the facade's reader can be decoded
Decodable(k) == reader.handle /\ reader.bad # k

\* C24: an iterator over a facade starts at frame 0; over a facade that
\* is open, the k-th next() hands out frame k stamped with frame_no k,
\* having asked the backend for frame k and nothing else, as long as
\* k < len(facade) and the frame decodes, and moves the iterator on by
\* one; with k = len(facade) it ends the iteration and decodes nothing
C24_Iteration ==
    [][ /\ __iter__ => (iteration'.state = "fresh" /\ iteration'.i = 0)
        /\ (__next__ /\ ~reader.closed
              /\ iteration.state \in {"fresh", "running"}) =>
              LET k == iteration.i
              IN  /\ out'.arg = k
                  /\ (k < _len /\ Decodable(k)) =>
                        /\ out'.status = "ok"
                        /\ out'.frame.frame_no = k
                        /\ out'.frame.payload =
                              [id |-> k, kind |-> reader.frames[k + 1]]
                        /\ out'.decoded = <<k>>
                        /\ iteration'.i = k + 1
                        /\ iteration'.state = "running"
                  /\ k >= _len =>
                        /\ out'.status = "StopIteration"
                        /\ out'.decoded = <<>>
                        /\ iteration'.state = "ended"
                  /\ out'.status = "ok" => k < _len
      ]_vars

\* an iteration of an open facade has handed out its last frame
C24_Witness ==
    /\ out.op = "next"
    /\ out.status = "ok"
    /\ ~reader.closed
    /\ _len = MaxFrames
    /\ out.arg = _len - 1
    /\ out.frame.frame_no = _len - 1
    /\ iteration = [state |-> "running", i |-> _len, n |-> _len]

(* ---- C23 ---- *)
\* C23: an open_file in which no file name is chosen, or in which opening
\* the new file fails, changes nothing of the viewer and closes no reader;
\* and a reader is closed by the viewer only in an open_file whose new
\* reader was opened, and then it is the viewer's current reader
C23_OpenFileFrame ==
    [][ /\ (/\ vout'.op = "open_file"
            /\ (vout'.arg = 0 \/ vout'.status = "OpenError")) =>
              /\ viewer' = viewer
              /\ closedReaders' = closedReaders
              /\ vphase' = vphase
        /\ closedReaders' # closedReaders =>
              /\ vout'.op = "open_file"
              /\ vout'.arg = 1
              /\ vout'.status # "OpenError"
              /\ viewer'.reader.id = viewer.opens + 1
              /\ closedReaders' = closedReaders \cup {viewer.reader.id}
      ]_vars

C23_Witness ==
    /\ vphase = "constructed"
    /\ vout.op = "open_file"
    /\ vout.status = "OpenError"
    /\ viewer.reader.id = 0
    /\ closedReaders = {}
    /\ viewer.index = 1
    /\ viewer.original_image.k = 1

(* ---- C22 ---- *)
\* the frame of the viewer's reader at position i, as it is on file
FrameOnFile(i) ==
    [rid |-> viewer.reader.id, k |-> i, kind |-> viewer.reader.frames[i + 1],
     ops |-> <<>>]

\* C22: in a viewer on the reader it was constructed with, whatever
\* numbers update_index has been called with, the index is within
\* [0, len(reader) - 1] and the source image is the reader's frame at the
\* index. (Not so: update_index moves self.index before it reads the frame,
\* so a read that raises leaves the index on a frame that was never loaded.)
C22_IndexInvariant ==
    (Alive /\ viewer.reader.id = 0) =>
        /\ 0 <= viewer.index
        /\ viewer.index <= Len(viewer.reader.frames) - 1
        /\ viewer.original_image = FrameOnFile(viewer.index)

\* what does hold: the index stays in range and only frames in range are
\* asked for, and whenever the last read succeeded the source image is the
\* frame at the index
C22_IndexInRange ==
    (Alive /\ viewer.reader.id = 0) =>
        /\ 0 <= viewer.index
        /\ viewer.index <= Len(viewer.reader.frames) - 1
        /\ viewer.slider.val = viewer.index
        /\ viewer.index # viewer.reader.bad =>
              viewer.original_image = FrameOnFile(viewer.index)

(* ---- C21 ---- *)
\* plugin p is in viewer.plugins
Attached(p) == \E k \in 1..Len(viewer.plugins) : viewer.plugins[k] = p

\* every plugin so far came in through viewer += plugin and still has a
\* pipeline_index attach could have given it (update_plugin has not set it
\* to None or to a negative number)
AddedWithPlus ==
    \A p \in 1..Len(plugs) :
        /\ plugs[p].connected
        /\ plugs[p].pipeline_index # None
        /\ plugs[p].pipeline_index[1] >= 0

\* one slot per attached plugin, every attached plugin's pipeline_index
\* names a slot, that slot holds the plugin's function, and no two attached
\* plugins name the same slot
SlotsInOrder ==
    /\ Len(viewer.pipelines) = Len(viewer.plugins)
    /\ \A p \in 1..Len(plugs) : Attached(p) =>
          /\ plugs[p].pipeline_index # None
          /\ plugs[p].pipeline_index[1] \in 0..(Len(viewer.pipelines) - 1)
          /\ viewer.pipelines[plugs[p].pipeline_index[1] + 1] = Some(p)
    /\ \A p, q \in 1..Len(plugs) :
          (Attached(p) /\ Attached(q) /\ p # q) =>
              plugs[p].pipeline_index # plugs[q].pipeline_index

\* C21: in a viewer whose plugins were all added with +=, after any
\* filter updates and cancel_pipeline calls there is one pipeline slot per
\* attached plugin, every attached plugin's pipeline_index names a slot, no
\* two attached plugins name the same slot, and the slot a plugin names
\* holds the function that plugin emitted. (Not so: cancel_pipeline deletes
\* a slot and leaves the pipeline_index of the plugins behind it as they
\* were, one too high.)
C21_PluginSlots == (Alive /\ AddedWithPlus) => SlotsInOrder

\* what does hold: as long as no plugin has been cancelled the slots are in
\* order
C21_SlotsBeforeCancel ==
    (Alive /\ AddedWithPlus /\ \A p \in 1..Len(plugs) : Attached(p)) =>
        SlotsInOrder

====
